---- MODULE Spec2Model ----
(***************************************************************************)
(* memoize-ts: the memoization cache of memoize() and the default          *)
(* comparator compareValues() of src/src/memoize.ts.                       *)
(*                                                                         *)
(* One memoized instance is modelled: its cache, the stack of invocations  *)
(* of the wrapped function fn that are in progress (fn may call the        *)
(* memoized wrapper again before it returns), and the counter of fn        *)
(* invocations the tests keep.  compareValues() is also exercised on its    *)
(* own, on a pair of operands, with the outcome of the call in result.     *)
(* Several instances made by separate calls of memoize() on the same fn    *)
(* are modelled by their caches, in instances; held is what the caller of  *)
(* getCache() was given.                                                   *)
(***************************************************************************)
EXTENDS Integers, Sequences, FiniteSets, TLC

VARIABLES cfg, cache, stack, calculations, pos, ev, returned, pending,
          operands, result, instances, held

vars == <<cfg, cache, stack, calculations, pos, ev, returned, pending,
          operands, result, instances, held>>

-----------------------------------------------------------------------------
(* Bounds of the exploration.                                              *)

\* most entries the cache may hold before further misses are not explored
MaxCache == 3
\* most nested invocations of a generic fn that are in progress at once
MaxDepth == 2
\* most invocations of a generic fn in one run
MaxCalls == 3
\* most nested calls of compareValues the call stack has room for
MaxStack == 8
\* most calls of memoize() on the same fn
MaxInstances == 2

-----------------------------------------------------------------------------
(* JavaScript values.  A value is a record [t, v]; objects live in Heap    *)
(* and are denoted by references, so that two structurally equal objects   *)
(* are still two values.  A string is encoded by its rank in UTF-16 order   *)
(* among the strings that occur: "0".."9" are 0..9, "a" is 10, "b" is 11,  *)
(* and the property names follow below.                                    *)

Num(n) == [t |-> "number", v |-> n]
NaN == [t |-> "nan", v |-> 0]
Undefined == [t |-> "undefined", v |-> 0]
Null == [t |-> "null", v |-> 0]
Str(c) == [t |-> "string", v |-> c]
Ref(i) == [t |-> "ref", v |-> i]
True == [t |-> "boolean", v |-> 1]

\* property names, in UTF-16 order
Key_n == Str(23)
Key_previous == Str(25)
Key_profits == Str(26)
Key_value == Str(31)
Key_w == Str(32)
Key_weights == Str(33)
Key_x == Str(34)
Key_y == Str(35)
Key_z == Str(36)

\* the texts that are never put in order: the source and the flags of a
\* regular expression, the source of a function
Text_abc == Str(40)
Text_abcd == Str(41)
Text_g == Str(42)
Text_none == Str(43)
Text_negate == Str(44)
Text_square == Str(45)

Array(vals) == [kind |-> "array", keys |-> <<>>, vals |-> vals]
Map(keys, vals) == [kind |-> "map", keys |-> keys, vals |-> vals]
Object(keys, vals) == [kind |-> "object", keys |-> keys, vals |-> vals]
\* objects without own enumerable properties, whose content is in internal
\* slots: /source/flags, new Date(instant), a function with its source text
RegExp(source, flags) == [kind |-> "regexp", keys |-> <<>>, vals |-> <<source, flags>>]
Date(instant) == [kind |-> "date", keys |-> <<>>, vals |-> <<Num(instant)>>]
Function(source) == [kind |-> "function", keys |-> <<>>, vals |-> <<source>>]
\* new Set(elems): a built-in container, its elements are in an internal slot
Set(elems) == [kind |-> "set", keys |-> <<>>, vals |-> elems]

\* new ListNode(value, previous): this.value and this.previous are both set
ListNode(value, previous) == Object(<<Key_value, Key_previous>>, <<Num(value), previous>>)

\* the objects that are built once: arguments of the generic instances and
\* the operands of compareValues
StaticHeap ==
  << Array(<<Num(1)>>),                                      \* 1  [1]
     Array(<<Num(1)>>),                                      \* 2  [1]
     Array(<<Num(2)>>),                                      \* 3  [2]
     Map(<<Num(1)>>, <<Num(2)>>),                            \* 4  Map {1 => 2}
     Map(<<Num(3)>>, <<Num(4)>>),                            \* 5  Map {3 => 4}
     Object(<<>>, <<>>),                                     \* 6  {}
     Object(<<Key_x>>, <<Num(1)>>),                          \* 7  {x: 1}
     Object(<<Key_x, Key_y>>, <<Num(1), Num(2)>>),           \* 8  {x: 1, y: 2}
     Object(<<Key_y, Key_x>>, <<Num(2), Num(1)>>),           \* 9  {y: 2, x: 1}
     Object(<<Key_x, Key_y>>, <<Num(1), Num(3)>>),           \* 10 {x: 1, y: 3}
     Object(<<Key_x, Key_z>>, <<Num(1), Num(2)>>),           \* 11 {x: 1, z: 2}
     Array(<<>>),                                            \* 12 []
     Array(<<Num(1), Num(2)>>),                              \* 13 [1, 2]
     Array(<<NaN>>),                                         \* 14 [NaN]
     Array(<<Ref(1)>>),                                      \* 15 [[1]]
     Array(<<Ref(2)>>),                                      \* 16 [[1]]
     Array(<<Ref(3)>>),                                      \* 17 [[2]]
     Map(<<Ref(1)>>, <<Undefined>>),                         \* 18 Map {[1] => undefined}
     Map(<<Ref(2)>>, <<Num(5)>>),                            \* 19 Map {[1] => 5}
     ListNode(1, Ref(22)),                                   \* 20 m1
     ListNode(2, Ref(20)),                                   \* 21 m2
     ListNode(3, Ref(21)),                                   \* 22 m3
     ListNode(1, Ref(25)),                                   \* 23 n1
     ListNode(2, Ref(23)),                                   \* 24 n2
     ListNode(3, Ref(24)),                                   \* 25 n3
     ListNode(10, Ref(28)),                                  \* 26 o1
     ListNode(20, Ref(26)),                                  \* 27 o2
     ListNode(30, Ref(27)),                                  \* 28 o3
     ListNode(1, Undefined),                                 \* 29 p1
     ListNode(2, Ref(29)),                                   \* 30 p2
     ListNode(3, Ref(30)),                                   \* 31 p3
     ListNode(10, Ref(34)),                                  \* 32 q1
     ListNode(2, Ref(32)),                                   \* 33 q2
     ListNode(3, Ref(33)),                                   \* 34 q3
     ListNode(1, Ref(37)),                                   \* 35 r1
     ListNode(20, Ref(35)),                                  \* 36 r2
     ListNode(3, Ref(36)),                                   \* 37 r3
     Object(<<Key_value>>, <<Num(1)>>),                      \* 38 {value: 1}
     ListNode(2, Ref(38)),                                   \* 39
     ListNode(3, Ref(39)),                                   \* 40
     Object(<<Key_x>>, <<NaN>>),                             \* 41 {x: NaN}
     Object(<<Key_x>>, <<Ref(1)>>),                          \* 42 {x: [1]}
     Object(<<Key_x>>, <<Ref(2)>>),                          \* 43 {x: [1]}
     Array(<<Ref(44)>>),                                     \* 44 a = []; a.push(a)
     Array(<<Ref(45)>>),                                     \* 45 b = []; b.push(b)
     ListNode(1, Ref(48)),                                   \* 46 s1
     ListNode(2, Ref(46)),                                   \* 47 s2
     ListNode(30, Ref(47)),                                  \* 48 s3
     Array(<<Ref(15)>>),                                     \* 49 [[[1]]]
     Array(<<Ref(16)>>),                                     \* 50 [[[1]]]
     Array(<<Ref(17)>>),                                     \* 51 [[[2]]]
     Array(<<Num(1), Num(2)>>),                              \* 52 [1, 2]
     Array(<<Num(2), Num(1)>>),                              \* 53 [2, 1]
     Map(<<>>, <<>>),                                        \* 54 new Map()
     Map(<<>>, <<>>),                                        \* 55 new Map()
     Map(<<Key_x, Key_y>>, <<Num(1), Num(2)>>),              \* 56 Map { x => 1, y => 2 }
     Map(<<Key_x, Key_y>>, <<Num(1), Num(2)>>),              \* 57 Map { x => 1, y => 2 }
     Map(<<Key_y, Key_x>>, <<Num(2), Num(1)>>),              \* 58 Map { y => 2, x => 1 }
     Map(<<Key_x>>, <<Num(1)>>),                             \* 59 Map { x => 1 }
     Map(<<Key_x, Key_y>>, <<Num(1), Num(3)>>),              \* 60 Map { x => 1, y => 3 }
     Map(<<Ref(1)>>, <<Num(1)>>),                            \* 61 Map { [1] => 1 }, key 1
     Map(<<Ref(2)>>, <<Num(1)>>),                            \* 62 Map { [1] => 1 }, key 2
     Map(<<Ref(1)>>, <<Num(1)>>),                            \* 63 Map { [1] => 1 }, key 1
     Map(<<Ref(3)>>, <<Num(1)>>),                            \* 64 Map { [2] => 1 }
     Map(<<Ref(2)>>, <<Num(2)>>),                            \* 65 Map { [1] => 2 }, key 2
     Object(<<Key_x>>, <<Num(1)>>),                          \* 66 { x: 1 }
     Map(<<Ref(7)>>, <<Num(1)>>),                            \* 67 Map { { x: 1 } => 1 }, key 7
     Map(<<Ref(66)>>, <<Num(1)>>),                           \* 68 Map { { x: 1 } => 1 }, key 66
     Object(<<Str(0), Str(1)>>, <<Num(1), Num(2)>>),         \* 69 { 0: 1, 1: 2 }
     Object(<<Str(0), Str(1)>>, <<Num(1), Num(2)>>),         \* 70 { 1: 2, 0: 1 }: index keys
                                                             \*    enumerate in ascending order
     Object(<<Str(0), Str(1), Str(2)>>, <<Num(1), Num(2), Num(3)>>),  \* 71 { 0: 1, 1: 2, 2: 3 }
     Object(<<Str(0)>>, <<Num(1)>>),                         \* 72 { 0: 1 }
     Object(<<Str(0), Str(1)>>, <<Num(1), Num(3)>>),         \* 73 { 0: 1, 1: 3 }
     Object(<<Str(0), Key_x>>, <<Num(1), Num(2)>>),          \* 74 { 0: 1, x: 2 }
     RegExp(Text_abc, Text_none),                            \* 75 /abc/
     RegExp(Text_abc, Text_none),                            \* 76 /abc/
     RegExp(Text_abcd, Text_none),                           \* 77 /abcd/
     RegExp(Text_abc, Text_g),                               \* 78 /abc/g
     Date(1),                                                \* 79 new Date(2024, 7, 12)
     Date(1),                                                \* 80 new Date(2024, 7, 12)
     Date(2),                                                \* 81 new Date(2024, 7, 13)
     Function(Text_negate),                                  \* 82 (n) => -n
     Function(Text_negate),                                  \* 83 (n) => -n
     Function(Text_square),                                \* 84 (n) => n ** 2
     Array(<<Ref(82)>>),                                     \* 85 [(n) => -n], 82
     Array(<<Ref(83)>>),                                     \* 86 [(n) => -n], 83
     Map(<<Ref(82)>>, <<Num(1)>>),                           \* 87 Map { (n) => -n => 1 }, 82
     Map(<<Ref(83)>>, <<Num(1)>>),                           \* 88 Map { (n) => -n => 1 }, 83
     Map(<<Ref(1), Ref(2)>>, <<Num(1), Num(1)>>),            \* 89 Map { [1] => 1, [1] => 1 }, keys 1, 2
     Map(<<Ref(2), Ref(1)>>, <<Num(1), Num(1)>>),            \* 90 Map { [1] => 1, [1] => 1 }, keys 2, 1
     Set(<<Num(1)>>),                                        \* 91 new Set([1])
     Set(<<Num(2)>>) >>                                      \* 92 new Set([2])

\* the circular lists of the tests, by their last node
m3 == Ref(22)
n3 == Ref(25)
o3 == Ref(28)
p3 == Ref(31)

\* the lists whose first node links back to the last: m, n, o, and three
\* that differ from m in the value of one node (q1, r2, s3)
CyclicLists ==
  { <<Ref(20), Ref(21), Ref(22)>>, <<Ref(23), Ref(24), Ref(25)>>,
    <<Ref(26), Ref(27), Ref(28)>>, <<Ref(32), Ref(33), Ref(34)>>,
    <<Ref(35), Ref(36), Ref(37)>>, <<Ref(46), Ref(47), Ref(48)>> }

\* the lists whose first node has no previous node: p, where previous is
\* undefined, and one whose first node has no such property
AcyclicLists == { <<Ref(29), Ref(30), Ref(31)>>, <<Ref(38), Ref(39), Ref(40)>> }

\* the number of objects of StaticHeap
StaticObjects == 92

\* the calls of the two knapsack tests, in order: n of each call; every call
\* builds its argument anew, with w: 2, profits: [10, 20, 0], weights: [1, 1, 1]
KnapsackScript == <<3, 3, 3, 4, 4, 4>>

\* the argument of knapsack: { n, w, profits, weights } in the first test
\* (shape 1), [n, w, profits, weights] in the second (shape 2)
KnapsackArgs(shape, n, w, profits, weights) ==
  IF shape = 1
  THEN Object(<<Key_n, Key_w, Key_profits, Key_weights>>, <<Num(n), Num(w), profits, weights>>)
  ELSE Array(<<Num(n), Num(w), profits, weights>>)

\* Where the objects of one top-level call live: 27 places after
\* Block(shape, call), which are the two arrays and the argument built by the
\* test body, then the argument built by fn's body for n in 0..3, w in 0..2
\* at its first (site 1) and at its second (site 2) call of knapsack.
Block(shape, call) ==
  StaticObjects + 27 * ((shape - 1) * Len(KnapsackScript) + (call - 1))

BlockOf(index) == StaticObjects + 27 * ((index - StaticObjects - 1) \div 27)

TopLevel(block) == Ref(block + 3)

Nested(block, n, w, site) == Ref(block + 3 + 2 * (3 * n + w) + site)

KnapsackHeap ==
  [k \in 1..(27 * 2 * Len(KnapsackScript)) |->
     LET b == (k - 1) \div 27
         place == ((k - 1) % 27) + 1
         shape == (b \div Len(KnapsackScript)) + 1
         call == (b % Len(KnapsackScript)) + 1
         block == Block(shape, call)
         profits == Ref(block + 1)
         weights == Ref(block + 2)
     IN CASE place = 1 -> Array(<<Num(10), Num(20), Num(0)>>)
          [] place = 2 -> Array(<<Num(1), Num(1), Num(1)>>)
          [] place = 3 -> KnapsackArgs(shape, KnapsackScript[call], 2, profits, weights)
          [] OTHER -> KnapsackArgs(shape, (place - 4) \div 6, ((place - 4) % 6) \div 2,
                                   profits, weights)]

\* every object of the run
Heap == StaticHeap \o KnapsackHeap

\* typeof
TypeOf(x) ==
  CASE x.t \in {"number", "nan"} -> "number"
    [] x.t = "null" -> "object"
    [] x.t = "ref" -> IF Heap[x.v].kind = "function" THEN "function" ELSE "object"
    [] OTHER -> x.t

\* an equality of primitive values only, without identity of objects
StrictEqualsPrimitive(left, right) == left = right /\ left.t \notin {"nan", "ref"}

\* left == right, as far as null and undefined go
StrictEqualsLoose(left, right) ==
  \/ left = right /\ left.t # "nan"
  \/ {left.t, right.t} = {"null", "undefined"}

\* Object.is(left, right) on these values: NaN is the same value as NaN
StrictEqualsSameValue(left, right) == left = right

\* left === right
StrictEquals(left, right) == left = right /\ left.t # "nan"

\* Array.isArray
IsArray(x) == x.t = "ref" /\ Heap[x.v].kind = "array"

\* x instanceof Map
IsMap(x) == x.t = "ref" /\ Heap[x.v].kind = "map"

\* the own enumerable keys of an object: the indices of an array, the keys of
\* a record, none of a Map
OwnKeys(o) ==
  CASE o.kind = "array" -> [i \in 1..Len(o.vals) |-> Str(i - 1)]
    [] o.kind = "object" -> o.keys
    [] OTHER -> <<>>

\* Object.keys(x)
ObjectKeys(x) == OwnKeys(Heap[x.v])

RECURSIVE Sort(_)

\* keys left in insertion order
SortNone(s) == s

\* keys.sort(): ascending by UTF-16 code unit (keys of one object are distinct)
Sort(s) ==
  IF s = <<>> THEN <<>>
  ELSE LET m == CHOOSE i \in 1..Len(s) : \A j \in 1..Len(s) : s[i].v <= s[j].v
       IN <<s[m]>> \o Sort([k \in 1..(Len(s) - 1) |-> IF k < m THEN s[k] ELSE s[k + 1]])

\* the value stored under a key, undefined when there is none
Stored(o, key) ==
  IF \E i \in 1..Len(o.keys) : o.keys[i] = key
  THEN o.vals[CHOOSE i \in 1..Len(o.keys) : o.keys[i] = key]
  ELSE Undefined

\* a property lookup that does not know the elements of an array
OwnPropRecordOnly(o, key) ==
  CASE o.kind = "object" -> Stored(o, key)
    [] OTHER -> Undefined

\* the own property `key` of an object
OwnProp(o, key) ==
  CASE o.kind = "array" ->
         IF key.v + 1 \in 1..Len(o.vals) THEN o.vals[key.v + 1] ELSE Undefined
    [] o.kind = "object" -> Stored(o, key)
    [] OTHER -> Undefined

\* right[key]
GetProp(x, key) == OwnProp(Heap[x.v], key)

\* right.get(key): lookup by SameValueZero
MapGet(x, key) == Stored(Heap[x.v], key)

\* the values of the nodes of a list, first node first
NodeValues(list) == [i \in 1..Len(list) |-> GetProp(list[i], Key_value)]

(* compareValues either returns true, returns false, or exhausts the call  *)
(* stack (RangeError: Maximum call stack size exceeded): its outcome is    *)
(* "true", "false" or "throws".  The recursion is followed call by call:   *)
(* the body of one call either decides the outcome or makes further calls, *)
(* in order, all of which must return true; depth is the number of calls   *)
(* of compareValues on the stack.                                          *)

\* a call compareValues(left, right) still to be made, on two values
ValuesCall(left, right, depth) ==
  [arrays |-> FALSE, left |-> <<left>>, right |-> <<right>>, depth |-> depth]

\* a call compareValues(left, right) still to be made, on two arrays that the
\* caller has built: [...left.keys()], leftKeys.sort(), the argument lists
ArraysCall(left, right, depth) ==
  [arrays |-> TRUE, left |-> left, right |-> right, depth |-> depth]

\* what the body of a call does: return, throw, or return true if every one
\* of `calls` does
Returns(outcome) == [outcome |-> outcome, calls |-> <<>>]
Every(calls) == [outcome |-> "true", calls |-> calls]

\* an every() that returns after its first element
everyFirst(left, right, depth) ==
  [i \in 1..(IF left = <<>> THEN 0 ELSE 1) |-> ValuesCall(left[i], right[i], depth + 1)]

\* an every() that looks at its last element only
everyLast(left, right, depth) ==
  [i \in 1..(IF left = <<>> THEN 0 ELSE 1) |->
     ValuesCall(left[Len(left)], right[Len(left)], depth + 1)]

\* left.every((leftValue, i) => compareValues(leftValue, right[i])): the calls
\* it makes, in order; it stops at the first that does not return true
every(left, right, depth) ==
  [i \in 1..Len(left) |-> ValuesCall(left[i], right[i], depth + 1)]

\* a comparison of arrays that does not look at the lengths
arraysBodyPrefix(left, right, depth) ==
  Every(every(SubSeq(left, 1, IF Len(left) <= Len(right) THEN Len(left) ELSE Len(right)),
              right, depth))

\* a comparison of arrays in which every() of no elements is false
arraysBodyNonEmpty(left, right, depth) ==
  IF Len(left) # Len(right) \/ left = <<>> THEN Returns("false")
  ELSE Every(every(left, right, depth))

\* the body of compareValues for two arrays that are not the same reference
arraysBody(left, right, depth) ==
  IF Len(left) # Len(right) THEN Returns("false")
  ELSE Every(every(left, right, depth))

\* a comparison of Maps that does not compare the sequences of keys
mapsBodyUnordered(l, r, depth) ==
  IF Len(l.keys) # Len(r.keys) THEN Returns("false")
  ELSE Every(every(l.vals, [i \in 1..Len(l.keys) |-> Stored(r, l.keys[i])], depth))

\* the body of compareValues for two Maps l and r
mapsBody(l, r, depth) ==
  IF Len(l.keys) # Len(r.keys) THEN Returns("false")
  ELSE Every(<<ArraysCall(l.keys, r.keys, depth + 1)>>
               \o every(l.vals, [i \in 1..Len(l.keys) |-> Stored(r, l.keys[i])], depth))

\* the body of compareValues for two objects that are not both Maps
objectsBody(left, right, leftKeys, rightKeys, depth) ==
  IF Len(leftKeys) # Len(rightKeys) THEN Returns("false")
  ELSE Every(<<ArraysCall(Sort(leftKeys), Sort(rightKeys), depth + 1)>>
               \o every([i \in 1..Len(leftKeys) |-> OwnProp(left, leftKeys[i])],
                        [i \in 1..Len(leftKeys) |-> OwnProp(right, leftKeys[i])],
                        depth))

\* a comparator that knows identity only
valuesBodyIdentity(left, right, depth) ==
  IF StrictEquals(left, right) THEN Returns("true") ELSE Returns("false")

\* a comparator that takes functions for objects
valuesBodyCallable(left, right, depth) ==
  IF StrictEquals(left, right) THEN Returns("true")
  ELSE IF TypeOf(left) # TypeOf(right) THEN Returns("false")
  ELSE IF IsArray(left) /\ IsArray(right)
       THEN arraysBody(Heap[left.v].vals, Heap[right.v].vals, depth)
  ELSE IF TypeOf(left) \in {"object", "function"} /\ TypeOf(right) \in {"object", "function"}
       THEN IF left.t = "null" \/ right.t = "null" THEN Returns("false")
            ELSE IF IsMap(left) /\ IsMap(right)
                 THEN mapsBody(Heap[left.v], Heap[right.v], depth)
                 ELSE objectsBody(Heap[left.v], Heap[right.v],
                                  ObjectKeys(left), ObjectKeys(right), depth)
  ELSE Returns("false")

\* the body of compareValues for two values
valuesBody(left, right, depth) ==
  IF StrictEquals(left, right) THEN Returns("true")
  ELSE IF TypeOf(left) # TypeOf(right) THEN Returns("false")
  ELSE IF IsArray(left) /\ IsArray(right)
       THEN arraysBody(Heap[left.v].vals, Heap[right.v].vals, depth)
  ELSE IF TypeOf(left) = "object" /\ TypeOf(right) = "object"
       THEN IF left.t = "null" \/ right.t = "null" THEN Returns("false")
            ELSE IF IsMap(left) /\ IsMap(right)
                 THEN mapsBody(Heap[left.v], Heap[right.v], depth)
                 ELSE objectsBody(Heap[left.v], Heap[right.v],
                                  ObjectKeys(left), ObjectKeys(right), depth)
  ELSE Returns("false")

\* the body of a call of compareValues
Body(call) ==
  IF call.depth > MaxStack THEN Returns("throws")
  ELSE IF call.arrays THEN arraysBody(call.left, call.right, call.depth)
  ELSE valuesBody(call.left[1], call.right[1], call.depth)

RECURSIVE Run(_)

\* the outcome once the body of the first call is known: it decides unless it
\* is true, and then the calls it makes come before the rest
Continue(body, rest) ==
  IF body.outcome # "true" THEN body.outcome ELSE Run(body.calls \o rest)

\* the calls still to be made are made in order; the first that does not
\* return true decides the outcome
Run(calls) ==
  IF calls = <<>> THEN "true" ELSE Continue(Body(Head(calls)), Tail(calls))

\* the call compareValues(left, right) at `depth`
compareValuesAt(left, right, depth) == Run(<<ValuesCall(left, right, depth)>>)

\* the call compareValues(left, right) at `depth`, for two arrays the caller
\* has built
compareArraysAt(left, right, depth) == Run(<<ArraysCall(left, right, depth)>>)

\* compareValues(left, right), called with an empty stack
compareValues(left, right) == compareValuesAt(left, right, 1)

\* compareValues(left, right) for two argument lists (arrays built by the call)
compareArrays(left, right) == compareArraysAt(left, right, 1)

-----------------------------------------------------------------------------
(* The comparison callbacks the instance is built with.                    *)

\* destructuring [p1, p2, ...]: a position past the end is undefined
Elem(s, i) == IF i \in 1..Len(s) THEN s[i] ELSE Undefined

\* ([a], [b]) => a === b
firstArgComparisonFn(left, right) == StrictEquals(Elem(left, 1), Elem(right, 1))

\* (left, right) => compareValues([leftP1, leftP3], [rightP1, rightP3])
ignoreSecondComparisonFn(left, right) ==
  compareArrays(<<Elem(left, 1), Elem(left, 3)>>, <<Elem(right, 1), Elem(right, 3)>>)
    = "true"

\* comparison callbacks that return a boolean and are no equivalence relation:
\* () => false is not reflexive
neverComparisonFn(left, right) == FALSE

\* ([a], [b]) => a < b is neither reflexive nor symmetric
lessComparisonFn(left, right) == Elem(left, 1).v < Elem(right, 1).v

\* ([a], [b]) => Math.abs(a - b) <= 1 is reflexive and symmetric, not transitive
nearComparisonFn(left, right) == Elem(left, 1).v - Elem(right, 1).v \in -1..1

\* a lookup that consults compareValues whatever callback was supplied
comparisonDefaultOnly(cmp, key, cacheEntry) == compareArrays(key, cacheEntry) = "true"

\* (comparisonFn ?? compareValues)(key, cacheEntry)
comparison(cmp, key, cacheEntry) ==
  CASE cmp = "first" -> firstArgComparisonFn(key, cacheEntry)
    [] cmp = "ignoreSecond" -> ignoreSecondComparisonFn(key, cacheEntry)
    [] cmp = "never" -> neverComparisonFn(key, cacheEntry)
    [] cmp = "less" -> lessComparisonFn(key, cacheEntry)
    [] cmp = "near" -> nearComparisonFn(key, cacheEntry)
    [] OTHER -> compareArrays(key, cacheEntry) = "true"

\* the first of a set of indices, 0 when there is none
First(S) == IF S = {} THEN 0 ELSE CHOOSE i \in S : \A j \in S : i <= j

\* a lookup that only looks at the entry inserted last
findCacheIndexFrontOnly(cmp, c, cacheEntry) ==
  First({i \in 1..(IF c = <<>> THEN 0 ELSE 1) : comparison(cmp, c[i].key, cacheEntry)})

\* a lookup from back to front (findLastIndex)
findCacheIndexLast(cmp, c, cacheEntry) ==
  LET S == {i \in 1..Len(c) : comparison(cmp, c[i].key, cacheEntry)} IN
  IF S = {} THEN 0 ELSE CHOOSE i \in S : \A j \in S : j <= i

\* cache.findIndex(...): the first matching index, 0 when there is none (-1 in JS)
findCacheIndex(cmp, c, cacheEntry) ==
  First({i \in 1..Len(c) : comparison(cmp, c[i].key, cacheEntry)})

-----------------------------------------------------------------------------
(* Instances that are explored: the wrapped function fn, the comparison    *)
(* callback, the argument lists of the calls, and whether fn's body uses   *)
(* the memoized function itself (reenter) or leaves it alone.              *)

\* memoize((a: number) => a + Math.random()): numbers, NaN among them
NumArgs == {<<Num(1)>>, <<Num(2)>>, <<NaN>>}
\* a function of one object: two equal arrays, two Maps, an empty record
StructArgs == {<<Ref(1)>>, <<Ref(2)>>, <<Ref(4)>>, <<Ref(5)>>, <<Ref(6)>>}
\* (p1: number[], p2: string, p3: Record<string, number>) of the README
TipArgs == {<<Ref(1), Str(10), Ref(6)>>, <<Ref(2), Str(11), Ref(6)>>,
            <<Ref(3), Str(10), Ref(6)>>}
\* arguments told apart by ([a], [b]) => a === b
FirstArgs == {<<Num(1)>>, <<Num(1), Num(2)>>, <<Ref(1)>>, <<Ref(2)>>}

\* numbers a callback on numbers orders and measures
CountArgs == {<<Num(1)>>, <<Num(2)>>, <<Num(3)>>}

\* memoize(() => Math.random()): the one argument list a call can carry
NoArgs == {<<>>}

\* the calls of Deno.test('Memoizing factorial() function'), in order
FactorialScript == <<10, 10, 10, 9, 8, 11, 11>>

\* the calls of Deno.test('Memoizing fibonacci() function'), in order
FibonacciScript == <<0, 1, 2, 3, 4, 4, 3, 2, 1, 0, 40>>

\* const memoFibonacci = memoize(fibonacci) of the README, where fibonacci
\* calls fibonacci: a call, then calls with a smaller and with the same argument
PlainFibonacciScript == <<5, 3, 5>>

Configs ==
  { [fn |-> "random", cmp |-> "default", args |-> NumArgs, reenter |-> TRUE, script |-> <<>>],
    [fn |-> "random", cmp |-> "default", args |-> NoArgs, reenter |-> FALSE, script |-> <<>>],
    [fn |-> "pure", cmp |-> "default", args |-> StructArgs, reenter |-> FALSE, script |-> <<>>],
    [fn |-> "pure", cmp |-> "ignoreSecond", args |-> TipArgs, reenter |-> TRUE, script |-> <<>>],
    [fn |-> "pure", cmp |-> "first", args |-> FirstArgs, reenter |-> TRUE, script |-> <<>>],
    [fn |-> "factorial", cmp |-> "first", args |-> {}, reenter |-> TRUE,
     script |-> FactorialScript],
    [fn |-> "fibonacci", cmp |-> "default", args |-> {}, reenter |-> TRUE,
     script |-> FibonacciScript],
    [fn |-> "plainFibonacci", cmp |-> "default", args |-> {}, reenter |-> FALSE,
     script |-> PlainFibonacciScript],
    [fn |-> "knapsackObject", cmp |-> "default", args |-> {}, reenter |-> TRUE,
     script |-> KnapsackScript],
    [fn |-> "knapsackTuple", cmp |-> "default", args |-> {}, reenter |-> TRUE,
     script |-> KnapsackScript] }

\* memoize(fn, comparisonFn) with a callback that is no equivalence relation
MalformedConfigs ==
  { [fn |-> "pure", cmp |-> "never", args |-> CountArgs, reenter |-> FALSE, script |-> <<>>],
    [fn |-> "pure", cmp |-> "less", args |-> CountArgs, reenter |-> TRUE, script |-> <<>>],
    [fn |-> "pure", cmp |-> "near", args |-> CountArgs, reenter |-> FALSE, script |-> <<>>] }

Generic(c) == c.fn \in {"pure", "random"}

\* fn.length === 0
NoParams(c) == c.args = NoArgs

\* utilities attached to every memoized function, whatever fn.length is
UtilitiesAll(c) == {"clearAll", "clearEntry", "getCache"}

\* the utilities memoize(fn) attaches to the function it returns
Utilities(c) ==
  {"clearAll", "getCache"} \cup (IF NoParams(c) THEN {} ELSE {"clearEntry"})

Knapsack(c) == c.fn \in {"knapsackObject", "knapsackTuple"}

Shape(c) == IF c.fn = "knapsackObject" THEN 1 ELSE 2

\* the values Math.random() is seen to return
RandomValues == {Num(7), Num(8)}

\* a deterministic fn without recursion: an injective function of its arguments
ArgOrder ==
  << <<Num(1)>>, <<Num(2)>>, <<NaN>>, <<Num(1), Num(2)>>,
     <<Ref(1)>>, <<Ref(2)>>, <<Ref(4)>>, <<Ref(5)>>, <<Ref(6)>>,
     <<Ref(1), Str(10), Ref(6)>>, <<Ref(2), Str(11), Ref(6)>>,
     <<Ref(3), Str(10), Ref(6)>>, <<Num(3)>> >>

pureFn(args) == Num(100 + (CHOOSE i \in 1..Len(ArgOrder) : ArgOrder[i] = args))

-----------------------------------------------------------------------------
(* The body of fn, between two calls of the memoized wrapper.              *)

Frame(args) == [args |-> args, pc |-> "start", acc |-> 0]

\* ({ n, w, profits, weights }) or ([n, w, profits, weights]): the i-th of
\* n, w, profits, weights
Param(arg, i) ==
  IF IsArray(arg) THEN GetProp(arg, Str(i - 1))
  ELSE GetProp(arg, <<Key_n, Key_w, Key_profits, Key_weights>>[i])

\* n === 0 || w === 0
BaseCase(arg) == Param(arg, 1).v = 0 \/ Param(arg, 2).v = 0

\* weights[n - 1], profits[n - 1]
WeightOfLast(arg) == GetProp(Param(arg, 4), Str(Param(arg, 1).v - 1))
ProfitOfLast(arg) == GetProp(Param(arg, 3), Str(Param(arg, 1).v - 1))

\* weights[n - 1] <= w: false when weights[n - 1] is undefined
Fits(arg) == WeightOfLast(arg).t = "number" /\ WeightOfLast(arg).v <= Param(arg, 2).v

\* knapsack({ n: n - 1, w: w - weights[n - 1], profits, weights })
Take(arg) ==
  Nested(BlockOf(arg.v), Param(arg, 1).v - 1, Param(arg, 2).v - WeightOfLast(arg).v, 1)

\* knapsack({ n: n - 1, w, profits, weights })
Skip(arg) == Nested(BlockOf(arg.v), Param(arg, 1).v - 1, Param(arg, 2).v, 2)

Max(a, b) == IF a >= b THEN a ELSE b

\* the standard Fibonacci function, without any memoization
RECURSIVE fibonacci(_)
fibonacci(n) == IF n <= 1 THEN n ELSE fibonacci(n - 1) + fibonacci(n - 2)

\* a fibonacci whose recursive calls went through memoFibonacci
plainCallsMemoized(f) ==
  IF f.args[1].v <= 1 THEN {}
  ELSE IF f.pc = "start" THEN {<<Num(f.args[1].v - 1)>>}
  ELSE IF f.pc = "mid" THEN {<<Num(f.args[1].v - 2)>>}
  ELSE {}

\* the calls the body of the plain fibonacci makes to memoFibonacci: none,
\* the name fibonacci in its body is the function that is not memoized
plainCalls(f) == {}

\* the argument lists fn's body may pass to the memoized wrapper next
NextCalls(f) ==
  LET n == f.args[1].v IN
  CASE cfg.fn = "plainFibonacci" -> plainCalls(f)
    [] cfg.fn = "factorial" ->
         IF f.pc = "start" /\ n > 1 THEN {<<Num(n - 1)>>} ELSE {}
    [] cfg.fn = "fibonacci" ->
         IF n <= 1 THEN {}
         ELSE IF f.pc = "start" THEN {<<Num(n - 1)>>}
         ELSE IF f.pc = "mid" THEN {<<Num(n - 2)>>}
         ELSE {}
    [] Knapsack(cfg) ->
         IF BaseCase(f.args[1]) THEN {}
         ELSE IF f.pc = "start" /\ Fits(f.args[1]) THEN {<<Take(f.args[1])>>}
         ELSE IF f.pc \in {"start", "mid"} THEN {<<Skip(f.args[1])>>}
         ELSE {}
    [] cfg.fn = "pure" ->
         \* a deterministic fn that asked for the arguments of a call still in
         \* progress would recurse for ever
         IF cfg.reenter /\ Len(stack) < MaxDepth
         THEN cfg.args \ {stack[i].args : i \in 1..Len(stack)}
         ELSE {}
    [] OTHER -> IF cfg.reenter /\ Len(stack) < MaxDepth THEN cfg.args ELSE {}

\* the values fn's body may return now
ReturnValues(f) ==
  LET n == f.args[1].v IN
  CASE cfg.fn = "plainFibonacci" ->
         IF f.pc = "start" THEN {Num(fibonacci(n))} ELSE {}
    [] cfg.fn = "factorial" ->
         IF n <= 1 THEN {Num(1)} ELSE IF f.pc = "ret" THEN {Num(f.acc)} ELSE {}
    [] cfg.fn = "fibonacci" ->
         IF n <= 1 THEN {Num(n)} ELSE IF f.pc = "ret" THEN {Num(f.acc)} ELSE {}
    [] Knapsack(cfg) ->
         IF BaseCase(f.args[1]) THEN {Num(0)}
         ELSE IF f.pc = "ret" THEN {Num(f.acc)} ELSE {}
    [] cfg.fn = "pure" -> {pureFn(f.args)}
    [] OTHER -> RandomValues

\* fn's body after the memoized wrapper handed it `value`
Resume(f, value) ==
  LET n == f.args[1].v IN
  CASE cfg.fn = "factorial" -> [f EXCEPT !.pc = "ret", !.acc = n * value.v]
    [] cfg.fn = "fibonacci" ->
         IF f.pc = "start" THEN [f EXCEPT !.pc = "mid", !.acc = value.v]
         ELSE [f EXCEPT !.pc = "ret", !.acc = f.acc + value.v]
    [] Knapsack(cfg) ->
         IF f.pc = "start" /\ Fits(f.args[1])
         THEN [f EXCEPT !.pc = "mid", !.acc = value.v + ProfitOfLast(f.args[1]).v]
         ELSE [f EXCEPT !.pc = "ret", !.acc = Max(f.acc, value.v)]
    [] OTHER -> f

\* the stack once the call made by its top frame (if any) has returned `value`
Deliver(stk, value) ==
  IF stk = <<>> THEN stk
  ELSE [stk EXCEPT ![Len(stk)] = Resume(stk[Len(stk)], value)]

\* what a caller holds after getCache(): the cache array of an instance
\* itself (live), or an array of its own (copy); nothing yet
Live(i) == [instance |-> i, live |-> TRUE, copy |-> <<>>]
Copy(i, c) == [instance |-> i, live |-> FALSE, copy |-> c]
NoCache == Live(0)

\* the last operation: what was asked and what the caller got
Event(op, args, value) == [op |-> op, args |-> args, value |-> value]

\* the keys that were invalidated (or whose computation failed) and that no
\* call has asked for since
Pending(op, keys) == [op |-> op, keys |-> keys]

-----------------------------------------------------------------------------

Init ==
  /\ cfg \in Configs
  /\ cache = <<>>
  /\ stack = <<>>
  /\ calculations = 0
  /\ pos = 1
  /\ ev = Event("init", <<>>, Undefined)
  /\ returned = {}
  /\ pending = Pending("none", {})
  /\ operands = <<Undefined, Undefined>>
  /\ result = "none"
  /\ instances = <<>>
  /\ held = NoCache

\* the argument lists the next call of the memoized function may carry:
\* from the test body when no fn is running, from fn's body otherwise
Callable ==
  IF stack = <<>>
  THEN IF cfg.script = <<>> THEN cfg.args
       ELSE IF pos > Len(cfg.script) THEN {}
       ELSE IF Knapsack(cfg) THEN {<<TopLevel(Block(Shape(cfg), pos))>>}
       ELSE {<<Num(cfg.script[pos])>>}
  ELSE NextCalls(stack[Len(stack)])

AdvanceScript ==
  pos' = IF stack = <<>> /\ cfg.script # <<>> THEN pos + 1 ELSE pos

\* what the ghost `pending` becomes once a call with `args` has done its lookup
Settle(args) ==
  LET rest == {k \in pending.keys : ~comparison(cfg.cmp, k, args)} IN
  IF rest = {} THEN Pending("none", {}) ELSE Pending(pending.op, rest)

\* a hit that moves the entry it found to the front of the cache
HitRefresh(args) ==
  \E index \in {findCacheIndex(cfg.cmp, cache, args)} :
  /\ args \in Callable
  /\ index # 0
  /\ cache' = <<cache[index]>> \o SubSeq(cache, 1, index - 1)
                 \o SubSeq(cache, index + 1, Len(cache))
  /\ stack' = Deliver(stack, cache[index].value)
  /\ ev' = Event("hit", args, cache[index].value)
  /\ returned' = returned \cup {[args |-> args, value |-> cache[index].value]}
  /\ pending' = Settle(args)
  /\ AdvanceScript
  /\ UNCHANGED <<held, instances, operands, result, cfg, calculations>>

\* a hit that writes the arguments of the call into the entry it found
HitRekey(args) ==
  \E index \in {findCacheIndex(cfg.cmp, cache, args)} :
  /\ args \in Callable
  /\ index # 0
  /\ cache' = [cache EXCEPT ![index].key = args]
  /\ stack' = Deliver(stack, cache[index].value)
  /\ ev' = Event("hit", args, cache[index].value)
  /\ returned' = returned \cup {[args |-> args, value |-> cache[index].value]}
  /\ pending' = Settle(args)
  /\ AdvanceScript
  /\ UNCHANGED <<held, instances, operands, result, cfg, calculations>>

\* memoizedFn(...args), index !== -1: the stored value is returned
Hit(args) ==
  \E index \in {findCacheIndex(cfg.cmp, cache, args)} :
  /\ args \in Callable
  /\ index # 0
  /\ stack' = Deliver(stack, cache[index].value)
  /\ ev' = Event("hit", args, cache[index].value)
  /\ returned' = returned \cup {[args |-> args, value |-> cache[index].value]}
  /\ pending' = Settle(args)
  /\ AdvanceScript
  /\ UNCHANGED <<held, instances, operands, result, cfg, cache, calculations>>

\* a miss that puts an entry for its arguments in the cache before fn runs
MissReserve(args) ==
  \E index \in {findCacheIndex(cfg.cmp, cache, args)} :
  /\ args \in Callable
  /\ index = 0
  /\ Generic(cfg) => (calculations < MaxCalls /\ Len(cache) + Len(stack) < MaxCache)
  /\ calculations' = calculations + 1
  /\ cache' = <<[key |-> args, value |-> Undefined]>> \o cache
  /\ stack' = Append(stack, Frame(args))
  /\ ev' = Event("miss", args, Undefined)
  /\ pending' = Settle(args)
  /\ AdvanceScript
  /\ UNCHANGED <<held, instances, operands, result, cfg, returned>>

\* memoizedFn(...args), index === -1: fn is entered
Miss(args) ==
  \E index \in {findCacheIndex(cfg.cmp, cache, args)} :
  /\ args \in Callable
  /\ index = 0
  /\ Generic(cfg) => (calculations < MaxCalls /\ Len(cache) + Len(stack) < MaxCache)
  /\ calculations' = calculations + 1
  /\ stack' = Append(stack, Frame(args))
  /\ ev' = Event("miss", args, Undefined)
  /\ pending' = Settle(args)
  /\ AdvanceScript
  /\ UNCHANGED <<held, instances, operands, result, cfg, cache, returned>>

\* a return that appends the new entry (cache.push) instead of cache.unshift
ReturnPush ==
  /\ stack # <<>>
  /\ LET f == stack[Len(stack)] IN
     \E value \in ReturnValues(f) :
       /\ cache' = Append(cache, [key |-> f.args, value |-> value])
       /\ stack' = Deliver(SubSeq(stack, 1, Len(stack) - 1), value)
       /\ ev' = Event("return", f.args, value)
       /\ returned' = returned \cup {[args |-> f.args, value |-> value]}
  /\ UNCHANGED <<held, instances, operands, result, cfg, calculations, pos, pending>>

\* a return into a cache that keeps the two newest entries only
ReturnBounded ==
  /\ stack # <<>>
  /\ LET f == stack[Len(stack)] IN
     \E value \in ReturnValues(f) :
       /\ cache' = SubSeq(<<[key |-> f.args, value |-> value]>> \o cache, 1,
                          IF Len(cache) >= 2 THEN 2 ELSE Len(cache) + 1)
       /\ stack' = Deliver(SubSeq(stack, 1, Len(stack) - 1), value)
       /\ ev' = Event("return", f.args, value)
       /\ returned' = returned \cup {[args |-> f.args, value |-> value]}
  /\ UNCHANGED <<held, instances, operands, result, cfg, calculations, pos, pending>>

\* a return that looks the key up again and inserts only if it is still absent
ReturnIfAbsent ==
  /\ stack # <<>>
  /\ LET f == stack[Len(stack)] IN
     \E value \in ReturnValues(f) :
       /\ cache' = IF findCacheIndex(cfg.cmp, cache, f.args) # 0 THEN cache
                   ELSE <<[key |-> f.args, value |-> value]>> \o cache
       /\ stack' = Deliver(SubSeq(stack, 1, Len(stack) - 1), value)
       /\ ev' = Event("return", f.args, value)
       /\ returned' = returned \cup {[args |-> f.args, value |-> value]}
  /\ UNCHANGED <<held, instances, operands, result, cfg, calculations, pos, pending>>

\* fn returns: cache.unshift({ key: args, value }); return value
Return ==
  /\ stack # <<>>
  /\ LET f == stack[Len(stack)] IN
     \E value \in ReturnValues(f) :
       /\ cache' = <<[key |-> f.args, value |-> value]>> \o cache
       /\ stack' = Deliver(SubSeq(stack, 1, Len(stack) - 1), value)
       /\ ev' = Event("return", f.args, value)
       /\ returned' = returned \cup {[args |-> f.args, value |-> value]}
  /\ UNCHANGED <<held, instances, operands, result, cfg, calculations, pos, pending>>

\* fn throws: the exception leaves memoizedFn before cache.unshift
Throw ==
  /\ stack # <<>>
  /\ Generic(cfg)
  /\ LET f == stack[Len(stack)] IN
     /\ stack' = SubSeq(stack, 1, Len(stack) - 1)
     /\ ev' = Event("throw", f.args, Undefined)
     /\ pending' = Pending("threw", {f.args})
  /\ UNCHANGED <<held, instances, operands, result, cfg, cache, calculations, pos, returned>>

\* memoizedFn.clearAll(): cache.length = 0
ClearAll ==
  /\ Generic(cfg)
  /\ "clearAll" \in Utilities(cfg)
  /\ cfg.reenter \/ stack = <<>>
  /\ cache' = <<>>
  /\ ev' = Event("clearAll", <<>>, Undefined)
  /\ returned' = {}
  /\ pending' = IF cache = <<>> THEN Pending("none", {})
                ELSE Pending("clearedAll", {cache[i].key : i \in 1..Len(cache)})
  /\ UNCHANGED <<held, instances, operands, result, cfg, stack, calculations, pos>>

\* cache.splice(index): everything from index on is removed
spliceToEnd(c, index) == SubSeq(c, 1, index - 1)

\* cache.splice(index, 1)
splice(c, index) == SubSeq(c, 1, index - 1) \o SubSeq(c, index + 1, Len(c))

\* memoizedFn.clearEntry(...args), which exists if fn.length > 0
ClearEntry(args) ==
  \E index \in {findCacheIndex(cfg.cmp, cache, args)} :
  /\ Generic(cfg)
  /\ "clearEntry" \in Utilities(cfg)
  /\ cfg.reenter \/ stack = <<>>
  /\ args \in cfg.args
  /\ cache' = IF index # 0 THEN splice(cache, index) ELSE cache
  /\ ev' = Event("clearEntry", args, Undefined)
  /\ returned' = {}
  /\ pending' = IF index # 0 THEN Pending("cleared", {args}) ELSE Pending("none", {})
  /\ UNCHANGED <<held, instances, operands, result, cfg, stack, calculations, pos>>

Next ==
  \/ \E args \in Callable : Hit(args)
  \/ \E args \in Callable : Miss(args)
  \/ Return
  \/ Throw
  \/ ClearAll
  \/ \E args \in cfg.args : ClearEntry(args)

Spec == Init /\ [][Next]_vars

\* the same operations on an instance whose comparisonFn is malformed
InitMalformed ==
  /\ cfg \in MalformedConfigs
  /\ cache = <<>>
  /\ stack = <<>>
  /\ calculations = 0
  /\ pos = 1
  /\ ev = Event("init", <<>>, Undefined)
  /\ returned = {}
  /\ pending = Pending("none", {})
  /\ operands = <<Undefined, Undefined>>
  /\ result = "none"
  /\ instances = <<>>
  /\ held = NoCache

SpecMalformed == InitMalformed /\ [][Next]_vars

-----------------------------------------------------------------------------
(* compareValues on its own: one call on a pair of values.                 *)

\* the values compareValues is applied to
Values ==
  {Num(1), Num(2), NaN, Undefined, Null, True, Str(10), Str(11)}
    \cup {Ref(i) : i \in 1..Len(StaticHeap)}

InitCompare ==
  /\ cfg = [fn |-> "none", cmp |-> "default", args |-> {}, reenter |-> FALSE,
            script |-> <<>>]
  /\ cache = <<>>
  /\ stack = <<>>
  /\ calculations = 0
  /\ pos = 1
  /\ ev = Event("init", <<>>, Undefined)
  /\ returned = {}
  /\ pending = Pending("none", {})
  /\ operands \in Values \X Values
  /\ result = "none"
  /\ instances = <<>>
  /\ held = NoCache

\* compareValues(left, right) is called and returns or throws
Compare ==
  /\ result = "none"
  /\ result' = compareValues(operands[1], operands[2])
  /\ UNCHANGED <<held, instances, operands, cfg, cache, stack, calculations, pos, ev, returned, pending>>

NextCompare == Compare

SpecCompare == InitCompare /\ [][NextCompare]_vars

-----------------------------------------------------------------------------
(* Several memoized instances of one fn: memoize(fn) is called more than   *)
(* once and each call returns a function with a cache of its own (const    *)
(* cache = [] in the body of memoize).  fn does not call the memoized      *)
(* functions here, so a call is one step.                                  *)

InstanceConfigs == {c \in Configs : Generic(c) /\ ~c.reenter}

\* what the i-th instance did last
EventOf(i, op, args, value) ==
  [instance |-> i, op |-> op, args |-> args, value |-> value]

\* a cache declared outside memoize(): one array for all instances
WriteShared(caches, i, c) == [j \in 1..Len(caches) |-> c]

\* the i-th instance assigns to the cache of its closure
Write(caches, i, c) == [caches EXCEPT ![i] = c]

RECURSIVE Entries(_)
\* the number of entries all the caches hold together
Entries(caches) ==
  IF caches = <<>> THEN 0 ELSE Len(Head(caches)) + Entries(Tail(caches))

\* what fn returns for an argument list
FnValues(args) == IF cfg.fn = "pure" THEN {pureFn(args)} ELSE RandomValues

InitInstances ==
  /\ cfg \in InstanceConfigs
  /\ cache = <<>>
  /\ stack = <<>>
  /\ calculations = 0
  /\ pos = 1
  /\ ev = EventOf(0, "init", <<>>, Undefined)
  /\ returned = {}
  /\ pending = Pending("none", {})
  /\ operands = <<Undefined, Undefined>>
  /\ result = "none"
  /\ instances = <<>>
  /\ held = NoCache

\* memoize(fn, comparisonFn): const cache = []
Memoize ==
  /\ Len(instances) < MaxInstances
  /\ instances' = Append(instances, <<>>)
  /\ ev' = EventOf(Len(instances) + 1, "memoize", <<>>, Undefined)
  /\ UNCHANGED <<held, operands, result, cfg, cache, stack, calculations, pos, returned, pending>>

\* the i-th memoizedFn(...args), index !== -1
HitOf(i, args) ==
  \E index \in {findCacheIndex(cfg.cmp, instances[i], args)} :
  /\ index # 0
  /\ ev' = EventOf(i, "hit", args, instances[i][index].value)
  /\ UNCHANGED <<held, instances, operands, result, cfg, cache, stack, calculations, pos,
                 returned, pending>>

\* the i-th memoizedFn(...args), index === -1: fn runs and returns
MissOf(i, args) ==
  \E index \in {findCacheIndex(cfg.cmp, instances[i], args)} :
  \E value \in FnValues(args) :
  /\ index = 0
  /\ Entries(instances) < MaxCache
  /\ instances' = Write(instances, i, <<[key |-> args, value |-> value]>> \o instances[i])
  /\ ev' = EventOf(i, "miss", args, value)
  /\ UNCHANGED <<held, operands, result, cfg, cache, stack, calculations, pos, returned, pending>>

\* the i-th memoizedFn.clearAll()
ClearAllOf(i) ==
  /\ "clearAll" \in Utilities(cfg)
  /\ instances' = Write(instances, i, <<>>)
  /\ ev' = EventOf(i, "clearAll", <<>>, Undefined)
  /\ UNCHANGED <<held, operands, result, cfg, cache, stack, calculations, pos, returned, pending>>

\* the i-th memoizedFn.clearEntry(...args)
ClearEntryOf(i, args) ==
  \E index \in {findCacheIndex(cfg.cmp, instances[i], args)} :
  /\ "clearEntry" \in Utilities(cfg)
  /\ instances' = IF index # 0 THEN Write(instances, i, splice(instances[i], index))
                  ELSE instances
  /\ ev' = EventOf(i, "clearEntry", args, Undefined)
  /\ UNCHANGED <<held, operands, result, cfg, cache, stack, calculations, pos, returned, pending>>

\* a getCache() that returns [...cache]
GetCacheCopyOf(i) ==
  /\ "getCache" \in Utilities(cfg)
  /\ held' = Copy(i, instances[i])
  /\ ev' = EventOf(i, "getCache", <<>>, Undefined)
  /\ UNCHANGED <<instances, operands, result, cfg, cache, stack, calculations, pos,
                 returned, pending>>

\* the i-th memoizedFn.getCache(): () => cache
GetCacheOf(i) ==
  /\ "getCache" \in Utilities(cfg)
  /\ held' = Live(i)
  /\ ev' = EventOf(i, "getCache", <<>>, Undefined)
  /\ UNCHANGED <<instances, operands, result, cfg, cache, stack, calculations, pos,
                 returned, pending>>

\* the entries of the array a caller holds, front to back
Contents(h) == IF h.live THEN instances[h.instance] ELSE h.copy

NextInstances ==
  \/ Memoize
  \/ \E i \in 1..Len(instances) : GetCacheOf(i)
  \/ \E i \in 1..Len(instances) : \E args \in cfg.args : HitOf(i, args)
  \/ \E i \in 1..Len(instances) : \E args \in cfg.args : MissOf(i, args)
  \/ \E i \in 1..Len(instances) : ClearAllOf(i)
  \/ \E i \in 1..Len(instances) : \E args \in cfg.args : ClearEntryOf(i, args)

SpecInstances == InitInstances /\ [][NextInstances]_vars

-----------------------------------------------------------------------------
(* Properties.                                                             *)

\* the stored keys that match an argument list under the active predicate
Matching(c, args) == {i \in 1..Len(c) : comparison(cfg.cmp, c[i].key, args)}

\* the smallest element of a non-empty set of indices
Front(S) == CHOOSE i \in S : \A j \in S : i <= j

\* a step in which the memoized function was called and did its lookup
IsCall(e) == e.op \in {"hit", "miss"}

\* C1 - Cache hit: a call whose argument list matches a stored key returns the
\* stored value (of the front-most matching entry), does not invoke fn (no
\* invocation is counted, no invocation of fn begins) and leaves the entries
\* of the cache and their order as they were.
C1_CacheHit ==
  [][ (IsCall(ev') /\ Matching(cache, ev'.args) # {}) =>
        /\ ev'.op = "hit"
        /\ ev'.value = cache[Front(Matching(cache, ev'.args))].value
        /\ calculations' = calculations
        /\ Len(stack') = Len(stack)
        /\ cache' = cache ]_vars

\* a hit on an entry that is not at the front, for arguments that are not the
\* very values of its key
C1_Witness ==
  /\ ev.op = "hit"
  /\ Matching(cache, ev.args) # {}
  /\ Front(Matching(cache, ev.args)) > 1
  /\ cache[Front(Matching(cache, ev.args))].key # ev.args
  /\ cache[Front(Matching(cache, ev.args))].value = ev.value

\* C2 - Cache miss: a call whose argument list matches no stored key invokes
\* fn once with those arguments (one invocation is counted and one invocation
\* of fn with these arguments begins); when that invocation returns, exactly
\* one entry {key: args, value: result} is inserted at the front, the rest of
\* the cache is as it was, fn is not invoked again, and the caller gets the
\* result.
C2_CacheMiss ==
  [][ /\ (IsCall(ev') /\ Matching(cache, ev'.args) = {}) =>
           /\ ev'.op = "miss"
           /\ calculations' = calculations + 1
           /\ stack' = Append(stack, [args |-> ev'.args, pc |-> "start", acc |-> 0])
           /\ cache' = cache
      /\ ev'.op = "return" =>
           /\ stack # <<>>
           /\ ev'.args = stack[Len(stack)].args
           /\ cache' = <<[key |-> ev'.args, value |-> ev'.value]>> \o cache
           /\ calculations' = calculations
           /\ Len(stack') = Len(stack) - 1
           /\ (cfg.fn = "pure" => ev'.value = pureFn(ev'.args))
           /\ (cfg.fn = "random" => ev'.value \in RandomValues) ]_vars

\* a miss has completed while other entries were stored: the new entry is at
\* index 0 in front of them
C2_Witness ==
  /\ ev.op = "return"
  /\ Len(cache) >= 2
  /\ cache[1] = [key |-> ev.args, value |-> ev.value]
  /\ calculations >= 2

\* C3 - Cache determinism: for a deterministic fn, and with no clearEntry or
\* clearAll since, a call whose argument list is equivalent under the active
\* predicate to that of a previous call returns the value that previous call
\* returned, and fn is not invoked.  Stated for instances whose fn leaves the
\* memoized function alone, so that calls follow one another.
C3_Determinism ==
  [][ (/\ cfg.fn # "random"
       /\ ~cfg.reenter
       /\ IsCall(ev')
       /\ \E p \in returned : comparison(cfg.cmp, p.args, ev'.args)) =>
        /\ ev'.op = "hit"
        /\ calculations' = calculations
        /\ \A p \in returned :
             comparison(cfg.cmp, p.args, ev'.args) => ev'.value = p.value ]_vars

\* C4 - Uniqueness: in every reachable state, for every argument list at most
\* one cache entry has a key that matches it under the active predicate.
\* Stated for instances whose fn leaves the memoized function alone.
C4_Uniqueness ==
  ~cfg.reenter =>
  \A args \in cfg.args \cup {cache[i].key : i \in 1..Len(cache)} :
    Cardinality(Matching(cache, args)) <= 1

\* C5 - Failure is not cached: when fn throws, the exception reaches the caller
\* of the memoized function and no entry is inserted; the next call with
\* equivalent arguments is again a miss.  Stated for instances whose fn
\* leaves the memoized function alone.
C5_FailureNotCached ==
  [][ ~cfg.reenter =>
      /\ ev'.op = "throw" =>
           /\ stack # <<>>
           /\ ev'.args = stack[Len(stack)].args
           /\ stack' = SubSeq(stack, 1, Len(stack) - 1)
           /\ cache' = cache
      /\ (/\ IsCall(ev')
          /\ pending.op = "threw"
          /\ \E k \in pending.keys : comparison(cfg.cmp, k, ev'.args)) =>
           ev'.op = "miss" ]_vars

\* C6 - Single-entry invalidation: after clearEntry(args) has found a key, the
\* next call with an equivalent argument list is a miss that invokes fn once.
\* Stated for instances whose fn leaves the memoized function alone.
C6_ClearEntryThenMiss ==
  [][ (/\ ~cfg.reenter
       /\ IsCall(ev')
       /\ pending.op = "cleared"
       /\ \E k \in pending.keys : comparison(cfg.cmp, k, ev'.args)) =>
        /\ ev'.op = "miss"
        /\ calculations' = calculations + 1 ]_vars

\* C7 - Full invalidation: clearAll() leaves the cache empty whatever it held,
\* and for every key that was cached before it the next call with an
\* equivalent argument list is a miss that invokes fn.  Stated for instances
\* whose fn leaves the memoized function alone.
C7_ClearAll ==
  [][ ~cfg.reenter =>
      /\ ev'.op = "clearAll" => cache' = <<>>
      /\ (/\ IsCall(ev')
          /\ pending.op = "clearedAll"
          /\ \E k \in pending.keys : comparison(cfg.cmp, k, ev'.args)) =>
           /\ ev'.op = "miss"
           /\ calculations' = calculations + 1 ]_vars

\* C8 - Effect of clearEntry(args): if some stored key matches args, exactly
\* the front-most matching entry is removed and every other entry keeps its
\* place relative to the others; if none matches the cache is unchanged; fn is
\* not invoked in either case.
C8_ClearEntryFrame ==
  [][ ev'.op = "clearEntry" =>
        LET M == Matching(cache, ev'.args) IN
        /\ M = {} => cache' = cache
        /\ M # {} =>
             /\ Len(cache') = Len(cache) - 1
             /\ \A j \in 1..Len(cache') :
                  cache'[j] = IF j < Front(M) THEN cache[j] ELSE cache[j + 1]
        /\ calculations' = calculations
        /\ stack' = stack ]_vars

\* clearEntry has removed one of several entries and left the others
C8_Witness ==
  /\ ev.op = "clearEntry"
  /\ pending.op = "cleared"
  /\ Len(cache) >= 2

\* C9 - Custom predicate replaces the default: with a comparisonFn, a call is a
\* hit, and clearEntry removes an entry, exactly when comparisonFn holds of a
\* stored key and the argument list, whatever compareValues says of them; with
\* the predicate that ignores the second parameter, a call that differs from a
\* stored key in the second parameter only is a hit on that entry and returns
\* its value.
CustomFn(key, args) ==
  IF cfg.cmp = "first" THEN StrictEquals(Elem(key, 1), Elem(args, 1))
  ELSE compareValues(Elem(key, 1), Elem(args, 1)) = "true"
       /\ compareValues(Elem(key, 3), Elem(args, 3)) = "true"

C9_CustomPredicate ==
  [][ cfg.cmp # "default" =>
        LET M == {i \in 1..Len(cache) : CustomFn(cache[i].key, ev'.args)} IN
        /\ IsCall(ev') => (ev'.op = "hit" <=> M # {})
        /\ ev'.op = "clearEntry" => (Len(cache') = Len(cache) - 1 <=> M # {})
        /\ (IsCall(ev') /\ cfg.cmp = "ignoreSecond" /\ M # {}) =>
             /\ ev'.value = cache[Front(M)].value
             /\ cache' = cache ]_vars

\* a hit under the predicate that ignores the second parameter, on an entry
\* whose key differs from the arguments in that parameter
C9_Witness ==
  /\ cfg.cmp = "ignoreSecond"
  /\ ev.op = "hit"
  /\ \E i \in 1..Len(cache) :
       /\ cache[i].value = ev.value
       /\ cache[i].key[2] # ev.args[2]
       /\ compareArrays(cache[i].key, ev.args) # "true"

\* C10 - Memoization across recursion: fn's body runs once per distinct
\* argument requested, directly or recursively.  After each call of the
\* factorial test the count is 10, 10, 10, 10, 10, 11, 11; after each call of
\* the fibonacci test it is 1, 2, 3, 4, 5, 5, 5, 5, 5, 5, 41.
C10_Recursion ==
  (cfg.script # <<>> /\ stack = <<>>) =>
    /\ calculations = Len(cache)
    /\ \A i, j \in 1..Len(cache) : cache[i].key = cache[j].key => i = j
    /\ (cfg.fn = "factorial" /\ pos > 1) =>
         calculations = <<10, 10, 10, 10, 10, 11, 11>>[pos - 1]
    /\ (cfg.fn = "fibonacci" /\ pos > 1) =>
         calculations = <<1, 2, 3, 4, 5, 5, 5, 5, 5, 5, 41>>[pos - 1]

\* the fibonacci test has made its last call, fibonacci(40)
C10_Witness ==
  /\ cfg.fn = "fibonacci"
  /\ stack = <<>>
  /\ pos = 12
  /\ ev.args = <<Num(40)>>
  /\ ev.value = Num(102334155)

-----------------------------------------------------------------------------
(* Structural keys.                                                        *)

\* b is a copy of a: the same value, or an object built the same way (same
\* kind, same keys in the same order, copies as values) at another place
RECURSIVE Alike(_, _)
Alike(a, b) ==
  \/ a = b
  \/ /\ a.t = "ref" /\ b.t = "ref"
     /\ Heap[a.v].kind = Heap[b.v].kind
     /\ Heap[a.v].keys = Heap[b.v].keys
     /\ Len(Heap[a.v].vals) = Len(Heap[b.v].vals)
     /\ \A i \in 1..Len(Heap[a.v].vals) : Alike(Heap[a.v].vals[i], Heap[b.v].vals[i])

\* the argument lists are copies of one another, and not the same references
FreshCopy(key, args) ==
  /\ key # args
  /\ Len(key) = Len(args)
  /\ \A i \in 1..Len(key) : Alike(key[i], args[i])

\* C11 - Structural keys under the default predicate: a call whose arguments
\* are freshly built objects or arrays, structurally equal to the arguments of
\* an earlier call whose entry is stored but not the same references, is a
\* cache hit that does not invoke fn; after each call of the knapsack tests
\* (n = 3, w = 2, profits = [10, 20, 0], weights = [1, 1, 1], then n = 4) the
\* count of invocations of fn is 9, 9, 9, 10, 10, 10.
C11_StructuralKeys ==
  [][ /\ (/\ cfg.cmp = "default"
          /\ IsCall(ev')
          /\ \E i \in 1..Len(cache) : FreshCopy(cache[i].key, ev'.args)) =>
           /\ ev'.op = "hit"
           /\ calculations' = calculations
           /\ \E i \in 1..Len(cache) :
                FreshCopy(cache[i].key, ev'.args) /\ ev'.value = cache[i].value
      /\ (Knapsack(cfg) /\ stack' = <<>> /\ pos' > 1) =>
           calculations' = <<9, 9, 9, 10, 10, 10>>[pos' - 1] ]_vars

\* the second call of a knapsack test, whose argument is built anew, has
\* returned the stored value and the count is still 9
C11_Witness ==
  /\ Knapsack(cfg)
  /\ stack = <<>>
  /\ pos = 3
  /\ ev.op = "hit"
  /\ calculations = 9
  /\ \E i \in 1..Len(cache) : FreshCopy(cache[i].key, ev.args) /\ ev.value = cache[i].value

-----------------------------------------------------------------------------
(* Functions of no parameters.                                             *)

\* C12 - Zero-argument memoization: for a memoized function of no parameters,
\* once a call has returned (and until clearAll) fn is not invoked again and
\* every later call returns the value of that first call, even though fn is
\* Math.random; the cache never holds more than one entry, its key is the
\* empty argument list, and it holds exactly that entry once a call has
\* returned.
C12_ZeroArguments ==
  [][ NoParams(cfg) =>
        /\ (IsCall(ev') /\ returned # {}) =>
             /\ ev'.op = "hit"
             /\ calculations' = calculations
             /\ Len(stack') = Len(stack)
             /\ \A p \in returned : ev'.value = p.value
        /\ Cardinality(returned') <= 1
        /\ Len(cache') <= 1
        /\ \A i \in 1..Len(cache') : cache'[i].key = <<>>
        /\ returned' # {} => Len(cache') = 1 ]_vars

\* a later call of the function of no parameters got the stored value, fn
\* having run once
C12_Witness ==
  /\ NoParams(cfg)
  /\ ev.op = "hit"
  /\ ev.args = <<>>
  /\ calculations = 1
  /\ cache = <<[key |-> <<>>, value |-> ev.value]>>

-----------------------------------------------------------------------------
(* compareValues: cycles.                                                  *)

\* compareValues(left, right) has been called
Compared == result # "none"

\* a and b are corresponding nodes of two distinct lists
Corresponding(a, b, listA, listB) ==
  /\ listA # listB
  /\ \E k \in 1..3 : a = listA[k] /\ b = listB[k]

\* a and b are corresponding places of two distinct cyclic structures of the
\* same shape that hold the same values
Isomorphic(a, b) ==
  \/ \E c, d \in CyclicLists :
       Corresponding(a, b, c, d) /\ NodeValues(c) = NodeValues(d)
  \/ {a, b} = {Ref(44), Ref(45)}

\* C13 - Totality and termination: compareValues(left, right) returns a
\* boolean and never throws, for all inputs, two distinct object graphs that
\* each contain a reference cycle among them.
C13_Total == Compared => result \in {"true", "false"}

\* C14 - Isomorphic cycles are equal: two independently built cyclic linked
\* structures with equal values and the same link topology compare equal, in
\* both argument orders.
C14_IsomorphicCycles ==
  (Compared /\ Isomorphic(operands[1], operands[2])) => result = "true"

C16_CyclicVersusAcyclic ==
  (/\ Compared
   /\ \E c \in CyclicLists, d \in AcyclicLists :
        /\ NodeValues(c) = NodeValues(d)
        /\ \/ Corresponding(operands[1], operands[2], c, d)
           \/ Corresponding(operands[1], operands[2], d, c))
    => result = "false"

\* the acyclic list p of the tests against the cyclic list n
C16_Witness ==
  /\ result = "false"
  /\ operands = <<p3, n3>>
  /\ GetProp(GetProp(GetProp(p3, Key_previous), Key_previous), Key_previous) = Undefined

-----------------------------------------------------------------------------
(* compareValues: algebraic properties.                                    *)

\* C17 (as claimed) - Reflexivity: compareValues(x, x) is true for every value
\* x, self-referential structures included.
C17_Reflexive ==
  (Compared /\ operands[1] = operands[2]) => result = "true"

\* C17 - Reflexivity: compareValues(x, x) is true for every value x other than
\* NaN, self-referential structures included.
C17_ReflexiveButNaN ==
  (Compared /\ operands[1] = operands[2] /\ operands[1] # NaN) => result = "true"

\* a node of a circular list compared with itself
C17_Witness ==
  /\ result = "true"
  /\ operands = <<m3, m3>>
  /\ GetProp(GetProp(GetProp(m3, Key_previous), Key_previous), Key_previous) = m3

\* C18 - Symmetry: compareValues(a, b) = compareValues(b, a) for all values
\* built from scalars, arrays, plain records and Maps, Maps whose keys are
\* arrays or records among them.
C18_Symmetry ==
  Compared => compareValues(operands[2], operands[1]) = result

\* C19 - Sequences: two arrays compare equal if and only if they have the same
\* length and at every index their elements compare equal under
\* compareValues, to any nesting depth (an array compared with itself is
\* equal by identity); arrays of different lengths are never equal.
C19_Sequences ==
  (Compared /\ IsArray(operands[1]) /\ IsArray(operands[2])) =>
    LET l == Heap[operands[1].v].vals
        r == Heap[operands[2].v].vals
    IN /\ result = "true" <=>
            \/ operands[1] = operands[2]
            \/ /\ Len(l) = Len(r)
               /\ \A i \in 1..Len(l) : compareValues(l[i], r[i]) = "true"
       /\ Len(l) # Len(r) => result = "false"

\* two distinct arrays of arrays of arrays, equal down to the innermost element
C19_Witness ==
  /\ result = "true"
  /\ operands = <<Ref(49), Ref(50)>>
  /\ Heap[49].vals # Heap[50].vals

\* a plain keyed record
IsRecord(x) == x.t = "ref" /\ Heap[x.v].kind = "object"

\* the set of the keys of a record
KeySet(x) == {Heap[x.v].keys[i] : i \in 1..Len(Heap[x.v].keys)}

\* C20 - Plain records ignore key order: two plain records compare equal if and
\* only if they have the same set of keys and for every key their two values
\* compare equal (a record compared with itself is equal by identity), in
\* whatever order the keys were inserted; records with different numbers of
\* keys are never equal.
C20_Records ==
  (Compared /\ IsRecord(operands[1]) /\ IsRecord(operands[2])) =>
    /\ result = "true" <=>
         \/ operands[1] = operands[2]
         \/ /\ KeySet(operands[1]) = KeySet(operands[2])
            /\ \A k \in KeySet(operands[1]) :
                 compareValues(GetProp(operands[1], k), GetProp(operands[2], k)) = "true"
    /\ Cardinality(KeySet(operands[1])) # Cardinality(KeySet(operands[2])) =>
         result = "false"

\* {x: 1, y: 2} and {y: 2, x: 1}
C20_Witness ==
  /\ result = "true"
  /\ operands = <<Ref(8), Ref(9)>>
  /\ Heap[8].keys # Heap[9].keys
  /\ KeySet(Ref(8)) = KeySet(Ref(9))

\* the value a Map or a record holds under exactly this key (the same
\* primitive value, the same reference), undefined when it holds none
ValueAt(map, key) ==
  LET m == Heap[map.v]
      at == {j \in 1..Len(m.keys) : m.keys[j] = key}
  IN IF at = {} THEN Undefined ELSE m.vals[CHOOSE j \in at : TRUE]

\* two Maps that are not the same Map have been compared
MapsCompared ==
  Compared /\ IsMap(operands[1]) /\ IsMap(operands[2]) /\ operands[1] # operands[2]

\* the same number of entries, keys equal key by key in iteration order, and
\* under every key of the left Map a value in the right Map that compares equal
EntriesMatch(left, right) ==
  LET l == Heap[left.v]
      r == Heap[right.v]
  IN /\ Len(l.keys) = Len(r.keys)
     /\ \A i \in 1..Len(l.keys) : compareValues(l.keys[i], r.keys[i]) = "true"
     /\ \A i \in 1..Len(l.keys) :
          compareValues(l.vals[i], ValueAt(right, l.keys[i])) = "true"

C22_StructuralMapKeys ==
  MapsCompared =>
    LET l == Heap[operands[1].v]
        r == Heap[operands[2].v]
    IN result = "true" <=>
         /\ Len(l.keys) = Len(r.keys)
         /\ \A i \in 1..Len(l.keys) :
              /\ compareValues(l.keys[i], r.keys[i]) = "true"
              /\ compareValues(l.vals[i], r.vals[i]) = "true"

\* the keys "0" .. "n-1"
Indices(n) == {Str(i) : i \in 0..(n - 1)}

\* of two values, one an array and the other a plain record: the array
ArrayOf(pair) == IF IsArray(pair[1]) THEN pair[1] ELSE pair[2]

\* ... and the record
RecordOf(pair) == IF IsArray(pair[1]) THEN pair[2] ELSE pair[1]

\* what an array holds at index i, or a record under the key "i"
AtIndex(x, i) ==
  IF IsArray(x) THEN Heap[x.v].vals[i + 1] ELSE ValueAt(x, Str(i))

\* an array and a plain record have been compared, in either order
ArrayAndRecordCompared ==
  /\ Compared
  /\ \/ IsArray(operands[1]) /\ IsRecord(operands[2])
     \/ IsRecord(operands[1]) /\ IsArray(operands[2])

\* C23 - Array and array-shaped record: an array of length n and a plain record
\* whose keys are exactly the indices 0..n-1 compare equal, in both argument
\* orders, if and only if at every index the value of the left operand
\* compares equal to that of the right; they are unequal when the record has
\* more or fewer keys than the array has elements.
C23_ArrayShapedRecord ==
  ArrayAndRecordCompared =>
    LET n == Len(Heap[ArrayOf(operands).v].vals)
        keys == KeySet(RecordOf(operands))
    IN /\ keys = Indices(n) =>
            (result = "true" <=>
               \A i \in 0..(n - 1) :
                 compareValues(AtIndex(operands[1], i), AtIndex(operands[2], i)) = "true")
       /\ Cardinality(keys) # n => result = "false"

\* [1, 2] and { 1: 2, 0: 1 }
C23_Witness ==
  /\ result = "true"
  /\ operands = <<Ref(13), Ref(70)>>
  /\ KeySet(Ref(70)) = Indices(Len(Heap[13].vals))

\* one of the two values is a Map and the other an array or a plain record
MapAndOther(a, b) == IsMap(a) /\ (IsArray(b) \/ IsRecord(b))

\* C24 - Category mismatch is inequality: compareValues returns false whenever
\* the two values belong to different runtime categories; in particular a Map
\* is never equal to an array and never equal to a plain record, whatever
\* their contents.
C24_CategoryMismatch ==
  Compared =>
    /\ TypeOf(operands[1]) # TypeOf(operands[2]) => result = "false"
    /\ (MapAndOther(operands[1], operands[2]) \/ MapAndOther(operands[2], operands[1]))
         => result = "false"

\* a regular expression, a date
IsRegExp(x) == x.t = "ref" /\ Heap[x.v].kind = "regexp"
IsDate(x) == x.t = "ref" /\ Heap[x.v].kind = "date"

\* what the internal slots of an object hold: source and flags, or the instant
Slots(x) == Heap[x.v].vals

\* C25 - Regular expressions and dates are compared by value: two regular
\* expressions compare equal if and only if they have the same source and
\* flags, two dates if and only if they denote the same instant.
C25_RegExpsAndDates ==
  Compared =>
    /\ (IsRegExp(operands[1]) /\ IsRegExp(operands[2])) =>
         (result = "true" <=> Slots(operands[1]) = Slots(operands[2]))
    /\ (IsDate(operands[1]) /\ IsDate(operands[2])) =>
         (result = "true" <=> Slots(operands[1]) = Slots(operands[2]))

\* a function value
IsFunction(x) == x.t = "ref" /\ Heap[x.v].kind = "function"

\* two functions have been compared
FunctionsCompared == Compared /\ IsFunction(operands[1]) /\ IsFunction(operands[2])

C27_FunctionsBySource ==
  /\ FunctionsCompared => (result = "true" <=> Slots(operands[1]) = Slots(operands[2]))
  /\ (Compared /\ operands \in {<<Ref(85), Ref(86)>>, <<Ref(87), Ref(88)>>}) => result = "true"

\* null or undefined
IsAbsent(x) == x \in {Null, Undefined}

\* a number, a string, a boolean, an array or a plain record
IsPresent(x) ==
  \/ x.t \in {"number", "nan", "string", "boolean"}
  \/ IsArray(x)
  \/ IsRecord(x)

\* C28 - Absence values: compareValues(null, null) and compareValues(undefined,
\* undefined) are true; null against undefined is false in both orders; null
\* or undefined against any number, string, boolean, array or record (the
\* empty array and the empty record included) is false.
C28_AbsenceValues ==
  Compared =>
    /\ (IsAbsent(operands[1]) /\ operands[2] = operands[1]) => result = "true"
    /\ (IsAbsent(operands[1]) /\ IsAbsent(operands[2]) /\ operands[2] # operands[1])
         => result = "false"
    /\ (IsAbsent(operands[1]) /\ IsPresent(operands[2])) => result = "false"
    /\ (IsPresent(operands[1]) /\ IsAbsent(operands[2])) => result = "false"

\* null against the empty record
C28_Witness ==
  /\ result = "false"
  /\ operands = <<Null, Ref(6)>>
  /\ ObjectKeys(Ref(6)) = <<>>

\* fn is called with at least one argument
TakesArguments(c) == \E args \in c.args : Len(args) > 0

\* the test body may use the utilities now
AtRest == Generic(cfg) /\ (cfg.reenter \/ stack = <<>>)

\* C29 - clearEntry exists exactly for non-nullary functions: the function
\* memoize(fn) returns has a clearEntry operation, which can be called, if and
\* only if fn takes at least one argument; clearAll and getCache are there in
\* every case.
C29_ClearEntryExists ==
  AtRest =>
    /\ (ENABLED (\E args \in cfg.args : ClearEntry(args))) <=> TakesArguments(cfg)
    /\ ("clearEntry" \in Utilities(cfg)) <=> TakesArguments(cfg)
    /\ ENABLED ClearAll
    /\ {"clearAll", "getCache"} \subseteq Utilities(cfg)

\* memoize(() => Math.random()) has been called and holds its value
C29_Witness ==
  /\ ~TakesArguments(cfg)
  /\ Generic(cfg)
  /\ stack = <<>>
  /\ Len(cache) = 1
  /\ "clearEntry" \notin Utilities(cfg)

\* C30 - Instance isolation: each call of memoize creates its own cache, empty
\* at first; calls, clearEntry and clearAll on one memoized instance never
\* change the cache of any other instance, even when the instances wrap the
\* same fn.
C30_InstanceIsolation ==
  [][/\ \A j \in 1..Len(instances) :
          (ev'.op = "memoize" \/ j # ev'.instance) => instances'[j] = instances[j]
     /\ ev'.op = "memoize" =>
          /\ Len(instances') = Len(instances) + 1
          /\ instances'[Len(instances')] = <<>>]_vars

\* two instances: the first was just cleared, the second still holds an entry
C30_Witness ==
  /\ Len(instances) = 2
  /\ ev.op = "clearAll"
  /\ ev.instance = 1
  /\ instances[1] = <<>>
  /\ instances[2] # <<>>

-----------------------------------------------------------------------------
(* Life of the entries.                                                    *)

\* the entries of old are all in new, unchanged and in the same order
RECURSIVE Embeds(_, _)
Embeds(new, old) ==
  \/ old = <<>>
  \/ /\ new # <<>>
     /\ IF Head(new) = Head(old) THEN Embeds(Tail(new), Tail(old))
        ELSE Embeds(Tail(new), old)

\* a step of a call of the memoized function: its lookup, or the return or
\* the exception of fn
IsCallStep(e) == e.op \in {"hit", "miss", "return", "throw"}

\* C31 - Entries are immutable and never evicted implicitly: a memoized call
\* never removes an existing entry, never changes the key or value of one and
\* never reorders existing entries; the size of the cache decreases only
\* through clearEntry or clearAll, and a completed miss adds its entry
\* whatever the size.
C31_EntriesImmutable ==
  [][ /\ IsCallStep(ev') => Embeds(cache', cache)
      /\ Len(cache') < Len(cache) => ev'.op \in {"clearEntry", "clearAll"}
      /\ ev'.op = "return" => Len(cache') = Len(cache) + 1 ]_vars

\* a miss has completed in a cache that held two entries already
C31_Witness ==
  /\ ev.op = "return"
  /\ Len(cache) >= 3
  /\ cache[1] = [key |-> ev.args, value |-> ev.value]

-----------------------------------------------------------------------------
(* Recursion.                                                              *)

\* the argument lists the test body has passed so far
Asked == {<<Num(cfg.script[k])>> : k \in 1..(pos - 1)}

\* the keys of the cache
Keys(c) == {c[i].key : i \in 1..Len(c)}

\* C33 - Recursion that bypasses the wrapper is not memoized: when fn's
\* recursive calls go to the function that is not memoized, a top-level call
\* with argument n adds exactly one entry (for n) and none for the inner
\* arguments, so a later call with a smaller argument that was only reached
\* recursively is a miss.
C33_BypassedRecursion ==
  [][ cfg.fn = "plainFibonacci" =>
        /\ Len(stack') <= 1
        /\ Keys(cache') \subseteq Asked'
        /\ ev'.op = "return" =>
             /\ cache' = <<[key |-> ev'.args, value |-> ev'.value]>> \o cache
             /\ ev'.value = Num(fibonacci(ev'.args[1].v))
        /\ (IsCall(ev') /\ ev'.args \notin Keys(cache)) => ev'.op = "miss" ]_vars

\* after memoFibonacci(5), memoFibonacci(3) is a miss
C33_Witness ==
  /\ cfg.fn = "plainFibonacci"
  /\ Keys(cache) = {<<Num(5)>>}
  /\ cache[1].value = Num(5)
  /\ ev = Event("miss", <<Num(3)>>, Undefined)

-----------------------------------------------------------------------------
(* Calls that overlap.                                                     *)

\* an invocation of fn for an equivalent argument list has begun and has not
\* returned
InProgress(args) ==
  \E k \in 1..Len(stack) : comparison(cfg.cmp, stack[k].args, args)

\* C34 - Check-then-act window: the lookup and the insertion of one call are
\* not atomic with respect to a call on an equivalent key that begins between
\* them (a call made from inside fn): the second call misses too and invokes
\* fn, both insert, and the cache then holds two entries matching the same
\* key.
C34_CheckThenAct ==
  [][ /\ (IsCall(ev') /\ InProgress(ev'.args) /\ Matching(cache, ev'.args) = {}) =>
           /\ ev'.op = "miss"
           /\ calculations' = calculations + 1
           /\ Len(stack') = Len(stack) + 1
      /\ (ev'.op = "return" /\ Matching(cache, ev'.args) # {}) =>
           /\ Len(cache') = Len(cache) + 1
           /\ Cardinality(Matching(cache', ev'.args)) >= 2 ]_vars

\* under the predicate that ignores the second parameter, a call and the call
\* its fn made with another second argument have both inserted
C34_Witness ==
  /\ cfg.cmp = "ignoreSecond"
  /\ stack = <<>>
  /\ ev.op = "return"
  /\ calculations = 2
  /\ Len(cache) = 2
  /\ cache[1].key # cache[2].key
  /\ Matching(cache, cache[1].key) = {1, 2}

\* C35 - First match wins: the lookup scans the cache from front to back and
\* uses the first entry whose key matches; when several entries match the
\* argument list, a call returns the value of the front-most (most recently
\* inserted) of them and clearEntry removes only that one.
C35_FirstMatchWins ==
  [][ LET M == Matching(cache, ev'.args) IN
      Cardinality(M) >= 2 =>
        /\ IsCall(ev') =>
             /\ ev'.op = "hit"
             /\ ev'.value = cache[Front(M)].value
             /\ cache' = cache
        /\ ev'.op = "clearEntry" =>
             /\ cache' = SubSeq(cache, 1, Front(M) - 1)
                           \o SubSeq(cache, Front(M) + 1, Len(cache))
             /\ Cardinality(Matching(cache', ev'.args)) = Cardinality(M) - 1 ]_vars

\* a hit where two stored entries with different values match the arguments
C35_Witness ==
  /\ ev.op = "hit"
  /\ Cardinality(Matching(cache, ev.args)) >= 2
  /\ ev.value = cache[Front(Matching(cache, ev.args))].value
  /\ \E i \in Matching(cache, ev.args) : cache[i].value # ev.value

\* every entry holds an argument list and a value fn returns for it
WellFormed(c) ==
  \A i \in 1..Len(c) : c[i].key \in cfg.args /\ c[i].value \in FnValues(c[i].key)

\* no operation is stuck: a call finds its entry or enters fn, an invocation
\* that was entered can return, clearEntry and clearAll can be carried out
Completes ==
  /\ \A args \in Callable :
       \/ ENABLED Hit(args)
       \/ ENABLED Miss(args)
       \/ calculations >= MaxCalls
       \/ Len(cache) + Len(stack) >= MaxCache
  /\ stack # <<>> => ENABLED Return
  /\ AtRest => (ENABLED ClearAll /\ \A args \in cfg.args : ENABLED ClearEntry(args))

\* C36 - A malformed predicate cannot break the cache: with a comparisonFn
\* that returns a boolean but is not an equivalence relation (not reflexive,
\* not symmetric or not transitive), every call, clearEntry and clearAll
\* still completes and the cache remains a sequence of well-formed
\* {key, value} entries, each created by one completed invocation of fn.
C36_MalformedPredicate ==
  /\ [](WellFormed(cache) /\ Completes)
  /\ [][ /\ Len(cache') > Len(cache) =>
             /\ ev'.op = "return"
             /\ cache' = <<[key |-> stack[Len(stack)].args, value |-> ev'.value]>>
                           \o cache
             /\ Len(stack') = Len(stack) - 1
         /\ ev'.op = "hit" => cache' = cache
         /\ ev'.op = "clearAll" => cache' = <<>>
         /\ ev'.op = "clearEntry" =>
              (Embeds(cache, cache') /\ Len(cache') >= Len(cache) - 1) ]_vars

\* a hit on an entry stored for other arguments: |3 - 2| <= 1
C36_Witness ==
  /\ cfg.cmp = "near"
  /\ ev.op = "hit"
  /\ ev.args \notin Keys(cache)
  /\ ev.value # pureFn(ev.args)
  /\ Len(cache) >= 2
  /\ WellFormed(cache)

\* x instanceof Set
IsSet(x) == x.t = "ref" /\ Heap[x.v].kind = "set"

\* C37 - Unsupported categories fall back to identity comparison: for
\* object-like values that are neither arrays, Maps nor plain records (Sets,
\* built-in containers with no enumerable own keys), compareValues returns
\* true only when both sides are the same reference; two distinct such
\* objects with different contents are not reported equal.
C37_UnsupportedCategories ==
  (Compared /\ IsSet(operands[1]) /\ IsSet(operands[2])) =>
    (result = "true" <=> operands[1] = operands[2])

\* fn reaches the memoized wrapper from its own body, with smaller arguments
Recursive(c) == c.fn \in {"factorial", "fibonacci", "knapsackObject", "knapsackTuple"}

\* C38 - Insertion order under recursion: an entry is inserted only after fn
\* has returned, so when fn reaches the memoized wrapper recursively the
\* entries of inner calls are inserted before the entry of the outer call;
\* after a top-level call returns, its own entry is at the front of the cache
\* and entries appear front-to-back in reverse order of completion.
C38_InsertionOrder ==
  [][ /\ Len(cache') > Len(cache) => ev'.op = "return"
      /\ Recursive(cfg) =>
           \A k \in 1..Len(stack') : Matching(cache', stack'[k].args) = {}
      /\ ev'.op = "return" =>
           /\ ev'.args = stack[Len(stack)].args
           /\ stack' # <<>> => Len(stack') = Len(stack) - 1
           /\ cache' = <<[key |-> ev'.args, value |-> ev'.value]>> \o cache
      /\ cfg.fn \in {"factorial", "fibonacci"} =>
           \A i \in 1..(Len(cache') - 1) :
             cache'[i].key[1].v > cache'[i + 1].key[1].v ]_vars

\* factorial(10) has returned to the test body: 10 is at the front, then the
\* inner calls 9, 8, ... 1, which completed in the order 1, 2, ... 9
C38_Witness ==
  /\ cfg.fn = "factorial"
  /\ stack = <<>>
  /\ Len(cache) = 10
  /\ ev = Event("return", <<Num(10)>>, cache[1].value)
  /\ \A i \in 1..10 : cache[i].key = <<Num(11 - i)>>

\* NaN is one of the arguments
HasNaN(args) == \E i \in 1..Len(args) : args[i] = NaN

\* C39 - NaN never hits: compareValues(NaN, NaN) is false, so under the
\* default predicate every call whose argument list contains NaN is a miss
\* that invokes fn and inserts a further entry, and clearEntry with such an
\* argument list removes nothing.
C39_NaNNeverHits ==
  [][ (cfg.cmp = "default" /\ HasNaN(ev'.args)) =>
        /\ compareValues(NaN, NaN) = "false"
        /\ Matching(cache, ev'.args) = {}
        /\ IsCall(ev') =>
             /\ ev'.op = "miss"
             /\ calculations' = calculations + 1
             /\ stack' = Append(stack, Frame(ev'.args))
        /\ ev'.op = "return" =>
             cache' = <<[key |-> ev'.args, value |-> ev'.value]>> \o cache
        /\ ev'.op = "clearEntry" => cache' = cache ]_vars

\* two entries were stored for NaN, and clearEntry(NaN) left both
C39_Witness ==
  /\ ev = Event("clearEntry", <<NaN>>, Undefined)
  /\ Len(cache) >= 2
  /\ cache[1].key = <<NaN>>
  /\ cache[2].key = <<NaN>>

====
